---- MODULE Spec2Model ----
(***************************************************************************)
(* byte-num: conversion between decimal ASCII byte strings and the         *)
(* fixed-width integers u8..u64, usize, i8..i64, isize.                    *)
(*                                                                         *)
(* A machine integer of width w is a little-endian sequence of w/8 limbs   *)
(* of 8 bits (limb 1 is the least significant), so that the 32 and 64 bit  *)
(* types keep their width and every +, * and unary - of the source is      *)
(* computed with its carry out: the carry is what a build with overflow    *)
(* checks (the debug profile) panics on and what a build without them (the *)
(* release profile) drops.  A signed integer is its two's-complement bit   *)
(* pattern.  A byte string is a sequence of numbers 0..255.                *)
(***************************************************************************)
EXTENDS Integers, Sequences, FiniteSets, TLC

VARIABLES
  overflow_checks,  \* the build: TRUE = overflow checks on (debug), FALSE = off (release)
  ty,               \* the integer type the calls are made on
  num,              \* the integer at hand (limbs), or <<>> when there is none
  text,             \* the byte string at hand
  has_text,         \* whether text holds a byte string
  hist,             \* the calls made so far, oldest first
  res,              \* the outcome of the last call
  given_buff,       \* the buffer handed to int_to_bytes, as it was before the call
  orig              \* the value the caller supplied: [kind, val]

vars == <<overflow_checks, ty, num, text, has_text, hist, res, given_buff, orig>>

----------------------------------------------------------------------------
(* Outcomes of a call.                                                     *)

NoErr == [tag |-> "None", byte |-> 0]
with_byte(c) == [tag |-> "InvalidDigit", byte |-> c]
Overflow == [tag |-> "Overflow", byte |-> 0]
UnitErr == [tag |-> "Unit", byte |-> 0]

Ok(v) == [kind |-> "Ok", val |-> v, err |-> NoErr]
Err(e) == [kind |-> "Err", val |-> <<>>, err |-> e]
Panic == [kind |-> "Panic", val |-> <<>>, err |-> NoErr]
\* a read through get_unchecked outside the slice: undefined behaviour
Undefined == [kind |-> "Undefined", val |-> <<>>, err |-> NoErr]
NoCall == [kind |-> "None", val |-> <<>>, err |-> NoErr]

\* An overflowing +, *, - or abs panics exactly when the build checks overflow.
Trap(overflowed) == overflow_checks /\ overflowed

----------------------------------------------------------------------------
(* The integer types.                                                      *)

UnsignedTypes == {"u8", "u16", "u32", "u64", "usize"}
\* the types with a bytes_to_int_simd
SimdTypes == {"u32", "u64"}
SignedTypes == {"i8", "i16", "i32", "i64", "isize"}
Types == UnsignedTypes \cup SignedTypes

\* target_pointer_width = "64": usize is u64
Width(t) ==
  CASE t \in {"u8", "i8"} -> 8
    [] t \in {"u16", "i16"} -> 16
    [] t \in {"u32", "i32"} -> 32
    [] t \in {"u64", "i64", "usize", "isize"} -> 64

\* the $unsigned_version of the signed_from_ascii! / signed_into_ascii! calls
UnsignedVersion(t) ==
  CASE t = "i8" -> "u8"
    [] t = "i16" -> "u16"
    [] t = "i32" -> "u32"
    [] t = "i64" -> "u64"
    [] t = "isize" -> "usize"
    [] OTHER -> t

----------------------------------------------------------------------------
(* Arithmetic on limbs.                                                    *)

NLimbs(w) == w \div 8

\* k copies of x
RECURSIVE Repeat(_, _)
Repeat(x, k) == IF k = 0 THEN <<>> ELSE <<x>> \o Repeat(x, k - 1)

Zero(w) == Repeat(0, NLimbs(w))

\* `c as $int` for a small c < 2^24 (truncating)
FromNat(c, w) ==
  SubSeq(<<c % 256, (c \div 256) % 256, (c \div 65536) % 256, 0, 0, 0, 0, 0, 0, 0>>,
         1, NLimbs(w))

is_zero(a) == \A i \in 1..Len(a) : a[i] = 0

\* the carry out of limb i of a + b
RECURSIVE AddCarry(_, _, _)
AddCarry(a, b, i) ==
  IF i = 0 THEN 0 ELSE (a[i] + b[i] + AddCarry(a, b, i - 1)) \div 256

wrapping_add(a, b) ==
  SubSeq([i \in 1..Len(a) |-> (a[i] + b[i] + AddCarry(a, b, i - 1)) % 256],
         1, Len(a))

add_overflows(a, b) == AddCarry(a, b, Len(a)) > 0

\* the carry out of limb i of a * d
RECURSIVE MulCarry(_, _, _)
MulCarry(a, d, i) ==
  IF i = 0 THEN 0 ELSE (a[i] * d + MulCarry(a, d, i - 1)) \div 256

\* a * d for a small factor d (a digit), modulo 2^w
wrapping_mul(a, d) ==
  SubSeq([i \in 1..Len(a) |-> (a[i] * d + MulCarry(a, d, i - 1)) % 256],
         1, Len(a))

mul_overflows(a, d) == MulCarry(a, d, Len(a)) > 0

\* the remainder by m of the limbs i.. of a
RECURSIVE DivRem(_, _, _)
DivRem(a, m, i) ==
  IF i > Len(a) THEN 0 ELSE (DivRem(a, m, i + 1) * 256 + a[i]) % m

\* self / m and self % m for a small divisor m (10, 100, 1000, 10000)
div(a, m) ==
  SubSeq([i \in 1..Len(a) |-> (DivRem(a, m, i + 1) * 256 + a[i]) \div m],
         1, Len(a))

rem(a, m) == DivRem(a, m, 1)

RECURSIVE LessFrom(_, _, _)
LessFrom(a, b, i) ==
  IF i = 0 THEN FALSE
  ELSE IF a[i] # b[i] THEN a[i] < b[i]
  ELSE LessFrom(a, b, i - 1)

\* a < b, unsigned
less(a, b) == LessFrom(a, b, Len(a))

\* self < c for a small constant c
less_than(a, c) == less(a, FromNat(c, 8 * Len(a)))

\* !a
RECURSIVE Complement(_)
Complement(a) ==
  IF a = <<>> THEN <<>> ELSE <<255 - a[1]>> \o Complement(Tail(a))

\* two's complement: !a + 1
wrapping_neg(a) == wrapping_add(Complement(a), FromNat(1, 8 * Len(a)))

is_negative(a) == a[Len(a)] >= 128

\* $int::min_value() of a signed type: the one value whose negation overflows
min_value(w) == Append(Repeat(0, NLimbs(w) - 1), 128)

\* a decimal literal of the source, digits most significant first
RECURSIVE Lit(_, _)
Lit(ds, w) ==
  IF Len(ds) = 0 THEN Zero(w)
  ELSE wrapping_add(wrapping_mul(Lit(SubSeq(ds, 1, Len(ds) - 1), w), 10),
                    FromNat(ds[Len(ds)], w))

----------------------------------------------------------------------------
(* Constants of from_ascii.rs / convert.rs.                                *)

ASCII_TO_INT_FACTOR == 48

POW10_U8 ==
  <<
    Lit(<<1,0,0>>, 8),
    Lit(<<1,0>>, 8),
    Lit(<<1>>, 8)
  >>

POW10_U16 ==
  <<
    Lit(<<1,0,0,0,0>>, 16),
    Lit(<<1,0,0,0>>, 16),
    Lit(<<1,0,0>>, 16),
    Lit(<<1,0>>, 16),
    Lit(<<1>>, 16)
  >>

POW10_U32 ==
  <<
    Lit(<<1,0,0,0,0,0,0,0,0,0>>, 32),
    Lit(<<1,0,0,0,0,0,0,0,0>>, 32),
    Lit(<<1,0,0,0,0,0,0,0>>, 32),
    Lit(<<1,0,0,0,0,0,0>>, 32),
    Lit(<<1,0,0,0,0,0>>, 32),
    Lit(<<1,0,0,0,0>>, 32),
    Lit(<<1,0,0,0>>, 32),
    Lit(<<1,0,0>>, 32),
    Lit(<<1,0>>, 32),
    Lit(<<1>>, 32)
  >>

POW10_U64 ==
  <<
    Lit(<<1,0,0,0,0,0,0,0,0,0,0,0,0,0,0,0,0,0,0,0>>, 64),
    Lit(<<1,0,0,0,0,0,0,0,0,0,0,0,0,0,0,0,0,0,0>>, 64),
    Lit(<<1,0,0,0,0,0,0,0,0,0,0,0,0,0,0,0,0,0>>, 64),
    Lit(<<1,0,0,0,0,0,0,0,0,0,0,0,0,0,0,0,0>>, 64),
    Lit(<<1,0,0,0,0,0,0,0,0,0,0,0,0,0,0,0>>, 64),
    Lit(<<1,0,0,0,0,0,0,0,0,0,0,0,0,0,0>>, 64),
    Lit(<<1,0,0,0,0,0,0,0,0,0,0,0,0,0>>, 64),
    Lit(<<1,0,0,0,0,0,0,0,0,0,0,0,0>>, 64),
    Lit(<<1,0,0,0,0,0,0,0,0,0,0,0>>, 64),
    Lit(<<1,0,0,0,0,0,0,0,0,0,0>>, 64),
    Lit(<<1,0,0,0,0,0,0,0,0,0>>, 64),
    Lit(<<1,0,0,0,0,0,0,0,0>>, 64),
    Lit(<<1,0,0,0,0,0,0,0>>, 64),
    Lit(<<1,0,0,0,0,0,0>>, 64),
    Lit(<<1,0,0,0,0,0>>, 64),
    Lit(<<1,0,0,0,0>>, 64),
    Lit(<<1,0,0,0>>, 64),
    Lit(<<1,0,0>>, 64),
    Lit(<<1,0>>, 64),
    Lit(<<1>>, 64)
  >>

\* a faulty variant: the u16 table holds 100 twice
ConstTable_u16_repeated(t) ==
  CASE t = "u8" -> POW10_U8
    [] t = "u16" -> <<Lit(<<1,0,0,0,0>>, 16), Lit(<<1,0,0,0>>, 16),
                      Lit(<<1,0,0>>, 16), Lit(<<1,0,0>>, 16), Lit(<<1>>, 16)>>
    [] t = "u32" -> POW10_U32
    [] t \in {"u64", "usize"} -> POW10_U64

\* the $const_table of each unsigned_from_ascii! / impl_unsigned_conversions! call
ConstTable(t) ==
  CASE t = "u8" -> POW10_U8
    [] t = "u16" -> POW10_U16
    [] t = "u32" -> POW10_U32
    [] t \in {"u64", "usize"} -> POW10_U64

\* convert.rs keeps its own copy of the tables and of their lengths
POW10_U8_LEN == 3
POW10_U16_LEN == 5
POW10_U32_LEN == 10
POW10_U64_LEN == 20

convert_POW10_U8 ==
  <<
    Lit(<<1,0,0>>, 8),
    Lit(<<1,0>>, 8),
    Lit(<<1>>, 8)
  >>

convert_POW10_U16 ==
  <<
    Lit(<<1,0,0,0,0>>, 16),
    Lit(<<1,0,0,0>>, 16),
    Lit(<<1,0,0>>, 16),
    Lit(<<1,0>>, 16),
    Lit(<<1>>, 16)
  >>

convert_POW10_U32 ==
  <<
    Lit(<<1,0,0,0,0,0,0,0,0,0>>, 32),
    Lit(<<1,0,0,0,0,0,0,0,0>>, 32),
    Lit(<<1,0,0,0,0,0,0,0>>, 32),
    Lit(<<1,0,0,0,0,0,0>>, 32),
    Lit(<<1,0,0,0,0,0>>, 32),
    Lit(<<1,0,0,0,0>>, 32),
    Lit(<<1,0,0,0>>, 32),
    Lit(<<1,0,0>>, 32),
    Lit(<<1,0>>, 32),
    Lit(<<1>>, 32)
  >>

convert_POW10_U64 ==
  <<
    Lit(<<1,0,0,0,0,0,0,0,0,0,0,0,0,0,0,0,0,0,0,0>>, 64),
    Lit(<<1,0,0,0,0,0,0,0,0,0,0,0,0,0,0,0,0,0,0>>, 64),
    Lit(<<1,0,0,0,0,0,0,0,0,0,0,0,0,0,0,0,0,0>>, 64),
    Lit(<<1,0,0,0,0,0,0,0,0,0,0,0,0,0,0,0,0>>, 64),
    Lit(<<1,0,0,0,0,0,0,0,0,0,0,0,0,0,0,0>>, 64),
    Lit(<<1,0,0,0,0,0,0,0,0,0,0,0,0,0,0>>, 64),
    Lit(<<1,0,0,0,0,0,0,0,0,0,0,0,0,0>>, 64),
    Lit(<<1,0,0,0,0,0,0,0,0,0,0,0,0>>, 64),
    Lit(<<1,0,0,0,0,0,0,0,0,0,0,0>>, 64),
    Lit(<<1,0,0,0,0,0,0,0,0,0,0>>, 64),
    Lit(<<1,0,0,0,0,0,0,0,0,0>>, 64),
    Lit(<<1,0,0,0,0,0,0,0,0>>, 64),
    Lit(<<1,0,0,0,0,0,0,0>>, 64),
    Lit(<<1,0,0,0,0,0,0>>, 64),
    Lit(<<1,0,0,0,0,0>>, 64),
    Lit(<<1,0,0,0,0>>, 64),
    Lit(<<1,0,0,0>>, 64),
    Lit(<<1,0,0>>, 64),
    Lit(<<1,0>>, 64),
    Lit(<<1>>, 64)
  >>

\* the $const_table and $const_table_len of each impl_unsigned_conversions!
\* call, of impl FromAscii for u8, and of usize (u64)
ConvertTable(t) ==
  CASE t = "u8" -> convert_POW10_U8
    [] t = "u16" -> convert_POW10_U16
    [] t = "u32" -> convert_POW10_U32
    [] t \in {"u64", "usize"} -> convert_POW10_U64

ConvertTableLen(t) ==
  CASE t = "u8" -> POW10_U8_LEN
    [] t = "u16" -> POW10_U16_LEN
    [] t = "u32" -> POW10_U32_LEN
    [] t \in {"u64", "usize"} -> POW10_U64_LEN

----------------------------------------------------------------------------
(* from_ascii.rs: the checked parser.                                      *)

\* a faulty variant: the error carries the shifted byte d
parse_byte_reports_shifted(byte, pow10) ==
  LET d == (byte - ASCII_TO_INT_FACTOR) % 256
  IN  IF d > 9 THEN Err(with_byte(d))
      ELSE IF Trap(mul_overflows(pow10, d)) THEN Panic
      ELSE Ok(wrapping_mul(pow10, d))

\* fn parse_byte: Ok(N::from(d) * pow10), the product with the build's overflow rule
parse_byte(byte, pow10) ==
  LET d == (byte - ASCII_TO_INT_FACTOR) % 256
  IN  IF d > 9 THEN Err(with_byte((d + ASCII_TO_INT_FACTOR) % 256))
      ELSE IF Trap(mul_overflows(pow10, d)) THEN Panic
      ELSE Ok(wrapping_mul(pow10, d))

\* a + b of two $int values with the build's overflow rule
checked_add(a, b) ==
  IF Trap(add_overflows(a, b)) THEN Panic ELSE Ok(wrapping_add(a, b))

\* parse_byte(..)? on the n bytes from offset pos, left to right; the first
\* failure ends the call
RECURSIVE parse_bytes(_, _, _, _, _)
parse_bytes(bytes, table, idx, pos, n) ==
  IF n = 0 THEN Ok(<<>>)
  ELSE LET prev == parse_bytes(bytes, table, idx, pos, n - 1)
       IN  IF prev.kind # "Ok" THEN prev
           ELSE LET r == parse_byte(bytes[pos + n], table[idx + pos + n])
                IN  IF r.kind # "Ok" THEN r ELSE Ok(Append(prev.val, r.val))

\* r1 + r2 + r3 + r4
sum4(r) ==
  LET s2 == checked_add(r[1], r[2])
  IN  IF s2.kind # "Ok" THEN s2
      ELSE LET s3 == checked_add(s2.val, r[3])
           IN  IF s3.kind # "Ok" THEN s3 ELSE checked_add(s3.val, r[4])

\* a faulty variant: the remainder reads the table from its start, not from idx
RECURSIVE from_ascii_remainder_unaligned(_, _, _, _, _)
from_ascii_remainder_unaligned(bytes, table, idx, pos, result) ==
  IF pos >= Len(bytes) THEN Ok(result)
  ELSE LET r == parse_byte(bytes[pos + 1], table[pos + 1])
       IN  IF r.kind # "Ok" THEN r
           ELSE from_ascii_remainder_unaligned(bytes, table, idx, pos + 1,
                                               wrapping_add(result, r.val))

\* for (byte, pow10) in chunks.remainder().iter().zip(table_chunks.remainder())
RECURSIVE from_ascii_remainder(_, _, _, _, _)
from_ascii_remainder(bytes, table, idx, pos, result) ==
  IF pos >= Len(bytes) THEN Ok(result)
  ELSE LET r == parse_byte(bytes[pos + 1], table[idx + pos + 1])
       IN  IF r.kind # "Ok" THEN r
           ELSE from_ascii_remainder(bytes, table, idx, pos + 1,
                                     wrapping_add(result, r.val))

\* for (chunk, table_chunk) in chunks.by_ref().zip(table_chunks.by_ref())
RECURSIVE from_ascii_chunks(_, _, _, _, _)
from_ascii_chunks(bytes, table, idx, pos, result) ==
  IF Len(bytes) - pos < 4
  THEN from_ascii_remainder(bytes, table, idx, pos, result)
  ELSE LET r == parse_bytes(bytes, table, idx, pos, 4)
       IN  IF r.kind # "Ok" THEN r
           ELSE LET s == sum4(r.val)
                IN  IF s.kind # "Ok" THEN s
                    ELSE from_ascii_chunks(bytes, table, idx, pos + 4,
                                           wrapping_add(result, s.val))

\* a faulty variant: the first byte is decoded before the length is tested
from_ascii_unsigned_late_gate(t, bytes) ==
  LET table == ConstTable(t)
      idx == Len(table) - Len(bytes)
  IN  IF Len(bytes) >= 1 /\ (bytes[1] - ASCII_TO_INT_FACTOR) % 256 > 9
      THEN Err(with_byte(bytes[1]))
      ELSE IF Len(bytes) > Len(table) THEN Err(Overflow)
      ELSE IF t = "u8"
      THEN from_ascii_remainder(bytes, table, idx, 0, Zero(Width(t)))
      ELSE from_ascii_chunks(bytes, table, idx, 0, Zero(Width(t)))

\* a faulty variant: an input as long as the table is refused too
from_ascii_unsigned_gate_inclusive(t, bytes) ==
  LET table == ConstTable(t)
      idx == Len(table) - Len(bytes)
  IN  IF Len(bytes) >= Len(table) THEN Err(Overflow)
      ELSE IF t = "u8"
      THEN from_ascii_remainder(bytes, table, idx, 0, Zero(Width(t)))
      ELSE from_ascii_chunks(bytes, table, idx, 0, Zero(Width(t)))

\* unsigned_from_ascii!($int, $const_table) and its @u8 arm, and usize
from_ascii_unsigned(t, bytes) ==
  LET table == ConstTable(t)
      idx == Len(table) - Len(bytes)
  IN  IF Len(bytes) > Len(table) THEN Err(Overflow)
      ELSE IF t = "u8"
      THEN from_ascii_remainder(bytes, table, idx, 0, Zero(Width(t)))
      ELSE from_ascii_chunks(bytes, table, idx, 0, Zero(Width(t)))

\* -(x as Self) with the build's overflow rule
checked_neg(a) ==
  IF Trap(a = min_value(8 * Len(a))) THEN Panic ELSE Ok(wrapping_neg(a))

\* a faulty variant: an error of the unsigned parse after '-' is replaced
from_ascii_signed_masks_error(t, bytes) ==
  IF Len(bytes) >= 1 /\ bytes[1] = 45
  THEN LET u == from_ascii_unsigned(UnsignedVersion(t), SubSeq(bytes, 2, Len(bytes)))
       IN  IF u.kind = "Err" THEN Err(Overflow)
           ELSE IF u.kind # "Ok" THEN u
           ELSE checked_neg(u.val)
  ELSE from_ascii_unsigned(UnsignedVersion(t), bytes)

\* a faulty variant: an unsigned value above the signed maximum is refused
from_ascii_signed_range_checked(t, bytes) ==
  IF Len(bytes) >= 1 /\ bytes[1] = 45
  THEN LET u == from_ascii_unsigned(UnsignedVersion(t), SubSeq(bytes, 2, Len(bytes)))
       IN  IF u.kind # "Ok" THEN u ELSE checked_neg(u.val)
  ELSE LET u == from_ascii_unsigned(UnsignedVersion(t), bytes)
       IN  IF u.kind = "Ok" /\ is_negative(u.val) THEN Err(Overflow) ELSE u

\* a faulty variant: the length gate counts the sign
from_ascii_signed_gates_sign(t, bytes) ==
  IF Len(bytes) > Len(ConstTable(UnsignedVersion(t))) THEN Err(Overflow)
  ELSE IF Len(bytes) >= 1 /\ bytes[1] = 45
  THEN LET u == from_ascii_unsigned(UnsignedVersion(t), SubSeq(bytes, 2, Len(bytes)))
       IN  IF u.kind # "Ok" THEN u ELSE checked_neg(u.val)
  ELSE from_ascii_unsigned(UnsignedVersion(t), bytes)

\* signed_from_ascii!($int, $unsigned_version)
from_ascii_signed(t, bytes) ==
  IF Len(bytes) >= 1 /\ bytes[1] = 45
  THEN LET u == from_ascii_unsigned(UnsignedVersion(t), SubSeq(bytes, 2, Len(bytes)))
       IN  IF u.kind # "Ok" THEN u ELSE checked_neg(u.val)
  ELSE from_ascii_unsigned(UnsignedVersion(t), bytes)

\* str::from_utf8 of a slice of one byte: the bytes 0..127 are the one-byte
\* encodings, a lone byte 128..255 is Err(Utf8Error)
from_utf8(c) ==
  IF \A i \in 1..Len(c) : c[i] < 128 THEN Ok(c) ELSE Err(NoErr)

\* "number too large to fit in the target type"
OverflowMessage ==
  <<110, 117, 109, 98, 101, 114, 32, 116, 111, 111, 32, 108, 97, 114,
     103, 101, 32, 116, 111, 32, 102, 105, 116, 32, 105, 110, 32, 116,
     104, 101, 32, 116, 97, 114, 103, 101, 116, 32, 116, 121, 112, 101>>

\* impl Error for ParseIntErr: description; unwrap panics on Err
description(e) ==
  IF e.tag = "InvalidDigit"
  THEN LET u == from_utf8(<<e.byte>>)
       IN  IF u.kind = "Ok" THEN Ok(u.val) ELSE Panic
  ELSE Ok(OverflowMessage)

\* FromAscii::atoi of from_ascii.rs
from_ascii_atoi(t, bytes) ==
  IF t \in SignedTypes THEN from_ascii_signed(t, bytes)
  ELSE from_ascii_unsigned(t, bytes)

----------------------------------------------------------------------------
(* convert.rs: the parser without a length check.                          *)

\* macro atoi_unroll: the digit test, then $d * $const_table[$idx + $offset]
atoi_unroll(byte, pow10) ==
  LET d == (byte - ASCII_TO_INT_FACTOR) % 256
  IN  IF d > 9 THEN Err(UnitErr)
      ELSE IF Trap(mul_overflows(pow10, d)) THEN Panic
      ELSE Ok(wrapping_mul(pow10, d))

\* four atoi_unroll! in a row (n of them), the first failure returns
RECURSIVE atoi_unroll_seq(_, _, _, _, _)
atoi_unroll_seq(bytes, table, idx, pos, n) ==
  IF n = 0 THEN Ok(<<>>)
  ELSE LET prev == atoi_unroll_seq(bytes, table, idx, pos, n - 1)
       IN  IF prev.kind # "Ok" THEN prev
           ELSE LET r == atoi_unroll(bytes[pos + n], table[idx + pos + n])
                IN  IF r.kind # "Ok" THEN r ELSE Ok(Append(prev.val, r.val))

\* for offset in 0..len { atoi_unroll!; result += r }   ($int)
\* for offset in 0..len { atoi_unroll!; result = result.wrapping_add(r) }   (u8)
RECURSIVE convert_remainder(_, _, _, _, _, _)
convert_remainder(t, bytes, table, idx, pos, result) ==
  IF pos >= Len(bytes) THEN Ok(result)
  ELSE LET r == atoi_unroll(bytes[pos + 1], table[idx + pos + 1])
       IN  IF r.kind # "Ok" THEN r
           ELSE IF t # "u8" /\ Trap(add_overflows(result, r.val)) THEN Panic
           ELSE convert_remainder(t, bytes, table, idx, pos + 1,
                                  wrapping_add(result, r.val))

\* while len >= 4 { ... result = result.wrapping_add(r1 + r2 + r3 + r4) ... }
RECURSIVE convert_groups(_, _, _, _, _, _)
convert_groups(t, bytes, table, idx, pos, result) ==
  IF Len(bytes) - pos < 4
  THEN convert_remainder(t, bytes, table, idx, pos, result)
  ELSE LET r == atoi_unroll_seq(bytes, table, idx, pos, 4)
       IN  IF r.kind # "Ok" THEN r
           ELSE LET s == sum4(r.val)
                IN  IF s.kind # "Ok" THEN s
                    ELSE convert_groups(t, bytes, table, idx, pos + 4,
                                        wrapping_add(result, s.val))

\* one atoi_unroll! as a pair of reads: bytes.get_unchecked(offset) of the
\* slice that starts base bytes into the caller's input, then, when the byte
\* is a digit, $const_table.get_unchecked(idx + offset); the indices are
\* 0-based as in the source.  A byte read outside the input has no digit.
unroll_read(bytes, base, len, idx, offset, in_group) ==
  [byte |-> base + offset,
   table |-> idx + offset,
   idx |-> idx,
   len |-> len,
   group |-> in_group,
   digit |-> /\ base + offset \in 0..(Len(bytes) - 1)
             /\ (bytes[base + offset + 1] - ASCII_TO_INT_FACTOR) % 256 <= 9]

\* the reads of atoi_unroll! at the offsets 0..n-1, ended by the first byte
\* that is no digit (return Err(()))
RECURSIVE unroll_reads(_, _, _, _, _, _)
unroll_reads(bytes, base, len, idx, n, in_group) ==
  IF n = 0 THEN <<>>
  ELSE LET prev == unroll_reads(bytes, base, len, idx, n - 1, in_group)
       IN  IF prev # <<>> /\ ~prev[Len(prev)].digit THEN prev
           ELSE Append(prev, unroll_read(bytes, base, len, idx, n - 1, in_group))

\* a faulty variant: idx is not advanced after a group
RECURSIVE convert_reads_idx_kept(_, _, _, _, _)
convert_reads_idx_kept(t, bytes, base, len, idx) ==
  IF t # "u8" /\ len >= 4
  THEN LET g == unroll_reads(bytes, base, len, idx, 4, TRUE)
       IN  IF ~g[Len(g)].digit THEN g
           ELSE g \o convert_reads_idx_kept(t, bytes, base + 4, len - 4, idx)
  ELSE unroll_reads(bytes, base, len, idx, len, FALSE)

\* the reads of the loops of bytes_to_int, in order: while len >= 4 { four
\* atoi_unroll!; len -= 4; idx += 4; bytes = bytes.get_unchecked(4..) }, then
\* for offset in 0..len; the u8 implementation has the for loop only
RECURSIVE convert_reads(_, _, _, _, _)
convert_reads(t, bytes, base, len, idx) ==
  IF t # "u8" /\ len >= 4
  THEN LET g == unroll_reads(bytes, base, len, idx, 4, TRUE)
       IN  IF ~g[Len(g)].digit THEN g
           ELSE g \o convert_reads(t, bytes, base + 4, len - 4, idx + 4)
  ELSE unroll_reads(bytes, base, len, idx, len, FALSE)

\* len = bytes.len(); idx = $const_table_len - len; the reads of the call
bytes_to_int_reads(t, bytes) ==
  convert_reads(t, bytes, 0, Len(bytes), Len(ConstTable(t)) - Len(bytes))

\* a faulty variant: the empty input is refused
convert_unsigned_rejects_empty(t, bytes) ==
  LET table == ConstTable(t)
      idx == Len(table) - Len(bytes)
  IN  IF Len(bytes) = 0 THEN Err(UnitErr)
      ELSE IF Len(bytes) > Len(table)
      THEN IF overflow_checks THEN Panic
           ELSE IF (bytes[1] - ASCII_TO_INT_FACTOR) % 256 > 9 THEN Err(UnitErr)
           ELSE Undefined
      ELSE IF t = "u8"
      THEN convert_remainder(t, bytes, table, idx, 0, Zero(Width(t)))
      ELSE convert_groups(t, bytes, table, idx, 0, Zero(Width(t)))

\* impl_unsigned_conversions!::bytes_to_int, impl FromAscii for u8, and usize.
\* With len > $const_table_len the subtraction idx = LEN - len overflows: a
\* panic under overflow checks; without them idx wraps and the first table read
\* (made once byte 0 has passed the digit test) is out of bounds.
convert_unsigned(t, bytes) ==
  LET table == ConstTable(t)
      idx == Len(table) - Len(bytes)
  IN  IF Len(bytes) > Len(table)
      THEN IF overflow_checks THEN Panic
           ELSE IF (bytes[1] - ASCII_TO_INT_FACTOR) % 256 > 9 THEN Err(UnitErr)
           ELSE Undefined
      ELSE IF t = "u8"
      THEN convert_remainder(t, bytes, table, idx, 0, Zero(Width(t)))
      ELSE convert_groups(t, bytes, table, idx, 0, Zero(Width(t)))

\* Self::from(byte.wrapping_sub(ASCII_TO_INT_FACTOR)) * table entry: no digit
\* test, the product with the build's overflow rule
unchecked_product(byte, pow10) ==
  LET d == (byte - ASCII_TO_INT_FACTOR) % 256
  IN  IF Trap(mul_overflows(pow10, d)) THEN Panic
      ELSE Ok(wrapping_mul(pow10, d))

\* the four products d1..d4 of a group (n of them), the first panic ends
RECURSIVE unchecked_products(_, _, _, _, _)
unchecked_products(bytes, table, idx, pos, n) ==
  IF n = 0 THEN Ok(<<>>)
  ELSE LET prev == unchecked_products(bytes, table, idx, pos, n - 1)
       IN  IF prev.kind # "Ok" THEN prev
           ELSE LET r == unchecked_product(bytes[pos + n], table[idx + pos + n])
                IN  IF r.kind # "Ok" THEN r ELSE Ok(Append(prev.val, r.val))

\* for offset in 0..len { ...; result = result.wrapping_add(d1) }
RECURSIVE unchecked_remainder(_, _, _, _, _)
unchecked_remainder(bytes, table, idx, pos, result) ==
  IF pos >= Len(bytes) THEN Ok(result)
  ELSE LET r == unchecked_product(bytes[pos + 1], table[idx + pos + 1])
       IN  IF r.kind # "Ok" THEN r
           ELSE unchecked_remainder(bytes, table, idx, pos + 1,
                                    wrapping_add(result, r.val))

\* while len >= 4 { ...; result = result.wrapping_add(d1 + d2 + d3 + d4) }
RECURSIVE unchecked_groups(_, _, _, _, _)
unchecked_groups(bytes, table, idx, pos, result) ==
  IF Len(bytes) - pos < 4
  THEN unchecked_remainder(bytes, table, idx, pos, result)
  ELSE LET r == unchecked_products(bytes, table, idx, pos, 4)
       IN  IF r.kind # "Ok" THEN r
           ELSE LET s == sum4(r.val)
                IN  IF s.kind # "Ok" THEN s
                    ELSE unchecked_groups(bytes, table, idx, pos + 4,
                                          wrapping_add(result, s.val))

\* impl_unsigned_conversions!::bytes_to_int_unchecked, that of u8, and usize;
\* the integer returned is Ok(v).  With len > $const_table_len the
\* subtraction overflows as in bytes_to_int, and without a digit test the
\* first table read is out of bounds.
bytes_to_int_unchecked(t, bytes) ==
  LET table == ConstTable(t)
      idx == Len(table) - Len(bytes)
  IN  IF Len(bytes) > Len(table)
      THEN IF overflow_checks THEN Panic ELSE Undefined
      ELSE IF t = "u8"
      THEN unchecked_remainder(bytes, table, idx, 0, Zero(Width(t)))
      ELSE unchecked_groups(bytes, table, idx, 0, Zero(Width(t)))

\* impl_signed_conversions!::bytes_to_int_unchecked
bytes_to_int_unchecked_signed(t, bytes) ==
  IF Len(bytes) >= 1 /\ bytes[1] = 45
  THEN LET u == bytes_to_int_unchecked(UnsignedVersion(t), SubSeq(bytes, 2, Len(bytes)))
       IN  IF u.kind # "Ok" THEN u ELSE checked_neg(u.val)
  ELSE bytes_to_int_unchecked(UnsignedVersion(t), bytes)

\* FromAscii::atoi_unchecked of convert.rs
convert_atoi_unchecked(t, bytes) ==
  IF t \in SignedTypes THEN bytes_to_int_unchecked_signed(t, bytes)
  ELSE bytes_to_int_unchecked(t, bytes)

\* impl_signed_conversions!::bytes_to_int
convert_signed(t, bytes) ==
  IF Len(bytes) >= 1 /\ bytes[1] = 45
  THEN LET u == convert_unsigned(UnsignedVersion(t), SubSeq(bytes, 2, Len(bytes)))
       IN  IF u.kind # "Ok" THEN u ELSE checked_neg(u.val)
  ELSE convert_unsigned(UnsignedVersion(t), bytes)

\* FromAscii::atoi of convert.rs
convert_atoi(t, bytes) ==
  IF t \in SignedTypes THEN convert_signed(t, bytes)
  ELSE convert_unsigned(t, bytes)

----------------------------------------------------------------------------
(* convert_simd.rs: the parser on vectors of four lanes.  The vector       *)
(* operators -=, * and += wrap in every lane in either build.              *)

\* parse_current -= ASCII_TO_INT_VEC
simd_digits(bytes, pos) ==
  <<(bytes[pos + 1] - ASCII_TO_INT_FACTOR) % 256,
    (bytes[pos + 2] - ASCII_TO_INT_FACTOR) % 256,
    (bytes[pos + 3] - ASCII_TO_INT_FACTOR) % 256,
    (bytes[pos + 4] - ASCII_TO_INT_FACTOR) % 256>>

\* simd_result.wrapping_sum()
wrapping_sum(v) ==
  wrapping_add(wrapping_add(wrapping_add(v[1], v[2]), v[3]), v[4])

\* for offset in 0..len: the digit test, d * table[idx + offset], result += r
RECURSIVE simd_remainder(_, _, _, _, _)
simd_remainder(bytes, table, idx, pos, result) ==
  IF pos >= Len(bytes) THEN Ok(result)
  ELSE LET d == (bytes[pos + 1] - ASCII_TO_INT_FACTOR) % 256
           pow10 == table[idx + pos + 1]
       IN  IF d > 9 THEN Err(UnitErr)
           ELSE IF Trap(mul_overflows(pow10, d)) THEN Panic
           ELSE IF Trap(add_overflows(result, wrapping_mul(pow10, d))) THEN Panic
           ELSE simd_remainder(bytes, table, idx, pos + 1,
                               wrapping_add(result, wrapping_mul(pow10, d)))

\* while len >= 4: load, subtract, range test, multiply, accumulate per lane
RECURSIVE simd_groups(_, _, _, _, _)
simd_groups(bytes, table, idx, pos, simd_result) ==
  IF Len(bytes) - pos < 4
  THEN simd_remainder(bytes, table, idx, pos, wrapping_sum(simd_result))
  ELSE LET parse_current == simd_digits(bytes, pos)
       IN  IF \E j \in 1..4 : parse_current[j] > 9 THEN Err(UnitErr)
           ELSE simd_groups(bytes, table, idx, pos + 4,
                  <<wrapping_add(simd_result[1],
                      wrapping_mul(table[idx + pos + 1], parse_current[1])),
                    wrapping_add(simd_result[2],
                      wrapping_mul(table[idx + pos + 2], parse_current[2])),
                    wrapping_add(simd_result[3],
                      wrapping_mul(table[idx + pos + 3], parse_current[3])),
                    wrapping_add(simd_result[4],
                      wrapping_mul(table[idx + pos + 4], parse_current[4]))>>)

\* impl_unsigned_conversion_simd!::bytes_to_int_simd (u32 and u64).
\* aligned: the input slice starts at an address that is a multiple of 4;
\* u8x4::load_aligned_unchecked through any other address is undefined.
\* With len > $const_table_len, idx = LEN - len overflows as in convert.rs.
bytes_to_int_simd(t, bytes, aligned) ==
  LET table == ConstTable(t)
      idx == Len(table) - Len(bytes)
      zero == Zero(Width(t))
  IN  IF Len(bytes) > Len(table)
      THEN IF overflow_checks THEN Panic
           ELSE IF ~aligned THEN Undefined
           ELSE IF \E j \in 1..4 : simd_digits(bytes, 0)[j] > 9 THEN Err(UnitErr)
           ELSE Undefined
      ELSE IF Len(bytes) >= 4 /\ ~aligned THEN Undefined
      ELSE simd_groups(bytes, table, idx, 0, <<zero, zero, zero, zero>>)

----------------------------------------------------------------------------
(* into_ascii.rs: the formatter.                                           *)

\* a faulty variant: the comparisons are <= where the code has <
RECURSIVE digits10_loop_inclusive(_, _)
digits10_loop_inclusive(self, result) ==
  IF less_than(self, 11) THEN result
  ELSE IF less_than(self, 101) THEN result + 1
  ELSE IF less_than(self, 1001) THEN result + 2
  ELSE IF less_than(self, 10001) THEN result + 3
  ELSE digits10_loop_inclusive(div(self, 10000), result + 4)

\* unsigned_into_ascii!($int)::digits10
RECURSIVE digits10_loop(_, _)
digits10_loop(self, result) ==
  IF less_than(self, 10) THEN result
  ELSE IF less_than(self, 100) THEN result + 1
  ELSE IF less_than(self, 1000) THEN result + 2
  ELSE IF less_than(self, 10000) THEN result + 3
  ELSE digits10_loop(div(self, 10000), result + 4)

\* a faulty variant: the comparisons are <= where the code has <
digits10_u8_inclusive(self) ==
  IF less_than(self, 11) THEN 1
  ELSE IF less_than(self, 101) THEN 2
  ELSE 3

\* unsigned_into_ascii!(@u8)::digits10
digits10_u8(self) ==
  IF less_than(self, 10) THEN 1
  ELSE IF less_than(self, 100) THEN 2
  ELSE 3

into_ascii_digits10_unsigned(t, self) ==
  IF t = "u8" THEN digits10_u8(self) ELSE digits10_loop(self, 1)

\* self.abs() with the build's overflow rule
checked_abs(self) ==
  IF is_negative(self) THEN checked_neg(self) ELSE Ok(self)

\* signed_into_ascii!::digits10: (self.abs() as $unsigned_version).digits10()
into_ascii_digits10_signed(t, self) ==
  LET a == checked_abs(self)
  IN  IF a.kind # "Ok" THEN a
      ELSE Ok(into_ascii_digits10_unsigned(UnsignedVersion(t), a.val))

\* IntoAscii::digits10
into_ascii_digits10(t, self) ==
  IF t \in SignedTypes THEN into_ascii_digits10_signed(t, self)
  ELSE Ok(into_ascii_digits10_unsigned(t, self))

\* (x % 10) as u8 + ASCII_TO_INT_FACTOR
digit_byte(x) == rem(x, 10) + ASCII_TO_INT_FACTOR

\* for byte in chunked.into_remainder().iter_mut().rev(): i is the 1-based
\* position of the next byte written
RECURSIVE rchunks_remainder(_, _, _)
rchunks_remainder(self, buff, i) ==
  IF i = 0 THEN buff
  ELSE LET q == div(self, 10)
           b == [buff EXCEPT ![i] = digit_byte(self)]
       IN  IF is_zero(q) THEN b ELSE rchunks_remainder(q, b, i - 1)

\* a faulty variant: the two low digits of a group are written in each
\* other's place
RECURSIVE rchunks_loop_swapped(_, _, _)
rchunks_loop_swapped(self, buff, hi) ==
  IF hi < 4 THEN rchunks_remainder(self, buff, hi)
  ELSE LET q == div(self, 10)
           q1 == div(self, 100)
           q2 == div(self, 1000)
           b == [buff EXCEPT ![hi] = digit_byte(q),
                             ![hi - 1] = digit_byte(self),
                             ![hi - 2] = digit_byte(q1),
                             ![hi - 3] = digit_byte(q2)]
       IN  rchunks_loop_swapped(div(self, 10000), b, hi - 4)

\* for mut chunk in chunked.by_ref(): buff.rchunks_exact_mut(4) yields every
\* whole group of four from the right; hi bytes are not yet covered
RECURSIVE rchunks_loop(_, _, _)
rchunks_loop(self, buff, hi) ==
  IF hi < 4 THEN rchunks_remainder(self, buff, hi)
  ELSE LET q == div(self, 10)
           q1 == div(self, 100)
           q2 == div(self, 1000)
           b == [buff EXCEPT ![hi] = digit_byte(self),
                             ![hi - 1] = digit_byte(q),
                             ![hi - 2] = digit_byte(q1),
                             ![hi - 3] = digit_byte(q2)]
       IN  rchunks_loop(div(self, 10000), b, hi - 4)

\* unsigned_into_ascii!(@u8)::int_to_bytes: the loop ends on self == 0, tested
\* before self = q
RECURSIVE int_to_bytes_u8(_, _, _)
int_to_bytes_u8(self, buff, i) ==
  IF i = 0 THEN buff
  ELSE LET q == div(self, 10)
           b == [buff EXCEPT ![i] = digit_byte(self)]
       IN  IF is_zero(self) THEN b ELSE int_to_bytes_u8(q, b, i - 1)

\* unsigned int_to_bytes of into_ascii.rs
into_ascii_int_to_bytes_unsigned(t, self, buff) ==
  IF t = "u8" THEN int_to_bytes_u8(self, buff, Len(buff))
  ELSE rchunks_loop(self, buff, Len(buff))

\* IntoAscii::itoa (the trait's default, used by the unsigned types)
into_ascii_itoa_unsigned(t, self) ==
  LET size == into_ascii_digits10_unsigned(t, self)
      buff == Repeat(0, size)
  IN  Ok(into_ascii_int_to_bytes_unsigned(t, self, buff))

\* signed_into_ascii!::itoa
into_ascii_itoa_signed(t, self) ==
  IF is_negative(self)
  THEN LET n == checked_neg(self)   \* self * -1
           d == into_ascii_digits10_signed(t, self)
       IN  IF n.kind # "Ok" THEN n
           ELSE IF d.kind # "Ok" THEN d
           ELSE Ok(into_ascii_int_to_bytes_unsigned(UnsignedVersion(t), n.val,
                     Repeat(45, d.val + 1)))
  ELSE LET d == into_ascii_digits10_signed(t, self)
       IN  IF d.kind # "Ok" THEN d
           ELSE Ok(into_ascii_int_to_bytes_unsigned(UnsignedVersion(t), self,
                     Repeat(45, d.val)))

into_ascii_itoa(t, self) ==
  IF t \in SignedTypes THEN into_ascii_itoa_signed(t, self)
  ELSE into_ascii_itoa_unsigned(t, self)

\* signed_into_ascii!::int_to_bytes: the digits of self.abs(), then buff[0] = b'-'
into_ascii_int_to_bytes_signed(t, self, buff) ==
  IF is_negative(self)
  THEN LET a == checked_abs(self)
       IN  IF a.kind # "Ok" THEN a
           ELSE IF Len(buff) = 0 THEN Panic
           ELSE Ok([into_ascii_int_to_bytes_unsigned(UnsignedVersion(t), a.val, buff)
                      EXCEPT ![1] = 45])
  ELSE Ok(into_ascii_int_to_bytes_unsigned(UnsignedVersion(t), self, buff))

\* IntoAscii::int_to_bytes of into_ascii.rs
into_ascii_int_to_bytes(t, self, buff) ==
  IF t \in SignedTypes THEN into_ascii_int_to_bytes_signed(t, self, buff)
  ELSE Ok(into_ascii_int_to_bytes_unsigned(t, self, buff))

----------------------------------------------------------------------------
(* convert.rs: the formatter.                                              *)

\* impl_unsigned_conversions!::digits10 and impl IntoAscii for u8::digits10:
\* the loops of into_ascii.rs with return for break
convert_digits10_unsigned(t, self) ==
  IF t = "u8" THEN digits10_u8(self) ELSE digits10_loop(self, 1)

\* impl_signed_conversions!::digits10: if self < 0 { self *= -1 }, then the
\* unsigned count of self as $unsigned_version
convert_digits10_signed(t, self) ==
  LET a == IF is_negative(self) THEN checked_neg(self) ELSE Ok(self)
  IN  IF a.kind # "Ok" THEN a
      ELSE Ok(convert_digits10_unsigned(UnsignedVersion(t), a.val))

\* IntoAscii::digits10 of convert.rs
convert_digits10(t, self) ==
  IF t \in SignedTypes THEN convert_digits10_signed(t, self)
  ELSE Ok(convert_digits10_unsigned(t, self))

\* a faulty variant: the fixup loop has no exit on q == 0 and fills the buffer
RECURSIVE convert_fixup_no_exit(_, _, _)
convert_fixup_no_exit(self, buff, len) ==
  IF len = 0 THEN Ok(buff)
  ELSE convert_fixup_no_exit(div(self, 10),
                             [buff EXCEPT ![len] = digit_byte(self)], len - 1)

\* the fixup loop: for byte in buff.get_unchecked_mut(..len).iter_mut().rev(),
\* ended by q == 0 or by the head of the buffer
RECURSIVE convert_fixup(_, _, _)
convert_fixup(self, buff, len) ==
  IF len = 0 THEN Ok(buff)
  ELSE LET q == div(self, 10)
           b == [buff EXCEPT ![len] = digit_byte(self)]
       IN  IF is_zero(q) THEN Ok(b) ELSE convert_fixup(q, b, len - 1)

\* while self >= 10_000: four digits are written below len without a bounds
\* test; with len < 4 the indices len - 1 .. len - 4 underflow (a panic under
\* overflow checks, a write outside the buffer without them)
RECURSIVE convert_int_to_bytes_loop(_, _, _)
convert_int_to_bytes_loop(self, buff, len) ==
  IF less_than(self, 10000) THEN convert_fixup(self, buff, len)
  ELSE IF len < 4 THEN (IF overflow_checks THEN Panic ELSE Undefined)
  ELSE LET q == div(self, 10)
           q1 == div(self, 100)
           q2 == div(self, 1000)
           b == [buff EXCEPT ![len] = digit_byte(self),
                             ![len - 1] = digit_byte(q),
                             ![len - 2] = digit_byte(q1),
                             ![len - 3] = digit_byte(q2)]
       IN  convert_int_to_bytes_loop(div(self, 10000), b, len - 4)

\* the writes of the fixup loop over buff.get_unchecked_mut(..len), from
\* index len - 1 down: the indices written (0-based), the number of digits the
\* loop wrote, and its end: by q == 0 or by the head of the buffer
RECURSIVE int_to_bytes_fixup_writes(_, _, _, _)
int_to_bytes_fixup_writes(self, len, writes, count) ==
  IF len = 0 THEN [writes |-> writes, fixup |-> count, end |-> "buffer"]
  ELSE IF is_zero(div(self, 10))
  THEN [writes |-> Append(writes, len - 1), fixup |-> count + 1, end |-> "quotient"]
  ELSE int_to_bytes_fixup_writes(div(self, 10), len - 1,
                                 Append(writes, len - 1), count + 1)

\* a faulty variant: the loop of four runs while self >= 1_000
RECURSIVE int_to_bytes_writes_early_group(_, _, _)
int_to_bytes_writes_early_group(self, len, writes) ==
  IF less_than(self, 1000) THEN int_to_bytes_fixup_writes(self, len, writes, 0)
  ELSE IF len < 4
  THEN [writes |-> writes \o <<len - 1, len - 2, len - 3, len - 4>>,
        fixup |-> 0, end |-> "underflow"]
  ELSE int_to_bytes_writes_early_group(div(self, 10000), len - 4,
         writes \o <<len - 1, len - 2, len - 3, len - 4>>)

\* the writes of int_to_bytes: while self >= 10_000 the indices len - 1 ..
\* len - 4 through get_unchecked_mut, len -= 4; then the fixup loop.  With
\* len < 4 in the loop the indices underflow.
RECURSIVE int_to_bytes_writes(_, _, _)
int_to_bytes_writes(self, len, writes) ==
  IF less_than(self, 10000) THEN int_to_bytes_fixup_writes(self, len, writes, 0)
  ELSE IF len < 4
  THEN [writes |-> writes \o <<len - 1, len - 2, len - 3, len - 4>>,
        fixup |-> 0, end |-> "underflow"]
  ELSE int_to_bytes_writes(div(self, 10000), len - 4,
         writes \o <<len - 1, len - 2, len - 3, len - 4>>)

\* impl IntoAscii for u8::int_to_bytes: self = q, then the test self == 0
RECURSIVE convert_int_to_bytes_u8(_, _, _)
convert_int_to_bytes_u8(self, buff, i) ==
  IF i = 0 THEN buff
  ELSE LET q == div(self, 10)
           b == [buff EXCEPT ![i] = digit_byte(self)]
       IN  IF is_zero(q) THEN b ELSE convert_int_to_bytes_u8(q, b, i - 1)

\* unsigned int_to_bytes of convert.rs (usize is u64)
convert_int_to_bytes_unsigned(t, self, buff) ==
  IF t = "u8" THEN Ok(convert_int_to_bytes_u8(self, buff, Len(buff)))
  ELSE convert_int_to_bytes_loop(self, buff, Len(buff))

\* IntoAscii::int_to_bytes of convert.rs; the signed types write
\* self as $unsigned_version
convert_int_to_bytes(t, self, buff) ==
  convert_int_to_bytes_unsigned(UnsignedVersion(t), self, buff)

\* IntoAscii::itoa (the trait's default): vec![0; digits10], int_to_bytes
convert_itoa_unsigned(t, self) ==
  convert_int_to_bytes_unsigned(t, self,
    Repeat(0, convert_digits10_unsigned(t, self)))

\* impl_signed_conversions!::itoa
convert_itoa_signed(t, self) ==
  IF is_negative(self)
  THEN LET n == checked_neg(self)   \* self * -1
       IN  IF n.kind # "Ok" THEN n
           ELSE LET size == convert_digits10_signed(t, n.val)
                IN  IF size.kind # "Ok" THEN size
                    ELSE convert_int_to_bytes(t, n.val,
                           <<45>> \o Repeat(0, size.val))
  ELSE LET size == convert_digits10_signed(t, self)
       IN  IF size.kind # "Ok" THEN size
           ELSE convert_int_to_bytes(t, self, Repeat(0, size.val))

\* IntoAscii::itoa of convert.rs
convert_itoa(t, self) ==
  IF t \in SignedTypes THEN convert_itoa_signed(t, self)
  ELSE convert_itoa_unsigned(t, self)

----------------------------------------------------------------------------
(* Reference notions the properties are stated with: decimal value and     *)
(* canonical decimal text, computed digit by digit (Horner, repeated       *)
(* division) and not through the tables or the groups of four.             *)

IsDigit(b) == 48 <= b /\ b <= 57

AllDigits(s) == \A i \in 1..Len(s) : IsDigit(s[i])

\* the decimal value of a digit string modulo 2^w
RECURSIVE DecimalValue(_, _)
DecimalValue(s, w) ==
  IF Len(s) = 0 THEN Zero(w)
  ELSE wrapping_add(wrapping_mul(DecimalValue(SubSeq(s, 1, Len(s) - 1), w), 10),
                    FromNat(s[Len(s)] - 48, w))

\* the decimal value of a digit string does not fit w bits
RECURSIVE ExceedsWidth(_, _)
ExceedsWidth(s, w) ==
  IF s = <<>> THEN FALSE
  ELSE LET front == SubSeq(s, 1, Len(s) - 1)
           v == DecimalValue(front, w)
       IN  \/ ExceedsWidth(front, w)
           \/ mul_overflows(v, 10)
           \/ add_overflows(wrapping_mul(v, 10), FromNat(s[Len(s)] - 48, w))

\* the canonical decimal text of an unsigned value: no leading zero, "0" for 0
RECURSIVE Decimal(_)
Decimal(a) ==
  IF is_zero(div(a, 10)) THEN <<48 + rem(a, 10)>>
  ELSE Append(Decimal(div(a, 10)), 48 + rem(a, 10))

\* a digit string without its leading zeros, "0" when nothing else is left
RECURSIVE StripZeros(_)
StripZeros(s) ==
  IF Len(s) <= 1 THEN (IF s = <<>> THEN <<48>> ELSE s)
  ELSE IF s[1] = 48 THEN StripZeros(SubSeq(s, 2, Len(s)))
  ELSE s

\* the magnitude of a signed value, as an unsigned value of the same width
Magnitude(a) == IF is_negative(a) THEN wrapping_neg(a) ELSE a

\* the 1-based position of the leftmost byte that is no digit (0: none)
RECURSIVE FirstInvalid(_, _)
FirstInvalid(s, i) ==
  IF i > Len(s) THEN 0
  ELSE IF ~IsDigit(s[i]) THEN i
  ELSE FirstInvalid(s, i + 1)

\* $const_table.len() of the unsigned version of a type
TableLen(t) == Len(ConstTable(UnsignedVersion(t)))

----------------------------------------------------------------------------
(* The inputs of the calls.                                                *)

\* calls made in a row on one value
MaxCalls == 2
\* the integers 0..MaxSmall are inputs of every type wider than 8 bits
MaxSmall == 12
\* byte strings are up to MaxExtra bytes longer than the type's table
MaxExtra == 1
\* decimal texts are also given with up to MaxLeadZeros leading zeros
MaxLeadZeros == 1

DigitBytes == {48, 49, 57}
\* '!', '+', '-', '/', ':', NUL and a byte above 127
OtherBytes == {33, 43, 45, 47, 58, 0, 200}

AllOnes(w) == Repeat(255, NLimbs(w))

Samples(t) ==
  LET w == Width(t)
      table == ConstTable(UnsignedVersion(t))
      pow10 == {table[i] : i \in 1..Len(table)}
  IN  IF w = 8 THEN {FromNat(x, 8) : x \in 0..255}
      ELSE {FromNat(x, w) : x \in 0..MaxSmall}
           \cup pow10
           \cup {wrapping_add(x, AllOnes(w)) : x \in pow10}
           \cup {Lit(SubSeq(<<1,2,3,4,5,6,7,8,9,0,1,2,3,4,5,6,7,8,9,0>>, 1, k), w) :
                   k \in 1..Len(table)}
           \cup {min_value(w), wrapping_add(min_value(w), AllOnes(w)),
                 wrapping_add(min_value(w), FromNat(1, w)), AllOnes(w)}

\* the integers a caller passes to the formatter
IntInputs(t) == Samples(t) \cup {wrapping_neg(x) : x \in Samples(t)}

RECURSIVE ZeroPad(_, _)
ZeroPad(s, k) == IF k = 0 THEN s ELSE ZeroPad(<<48>> \o s, k - 1)

\* decimal texts of values around the limits of the type: a value of w bits
\* extended by one limb holds 2^w and its neighbours
Literals(t) ==
  LET w == Width(t)
      wide(x) == x \o <<0>>
      two_w == Zero(w) \o <<1>>
      vals == {wide(x) : x \in Samples(t)}
              \cup {two_w, wrapping_add(two_w, FromNat(1, w + 8)),
                    wrapping_add(two_w, FromNat(44, w + 8))}
  IN  {ZeroPad(Decimal(v), k) : v \in vals, k \in 0..MaxLeadZeros} \cup {<<>>}

\* strings of one repeated digit, with a non-digit put at one or two places
PatternsOfLen(len) ==
  LET uniform(d) == Repeat(d, len)
  IN  {uniform(d) : d \in DigitBytes}
      \cup {[uniform(d) EXCEPT ![p] = 33] : p \in 1..len, d \in DigitBytes}
      \cup {[uniform(49) EXCEPT ![p] = b] :
              p \in {1, len} \cap (1..len), b \in DigitBytes \cup OtherBytes}
      \cup UNION {{[uniform(49) EXCEPT ![p] = 33, ![q] = 58] :
                     q \in {p + 1, len} \cap ((p + 1)..len)} : p \in 1..len}

SignedPatternsOfLen(len) ==
  LET uniform(d) == Repeat(d, len)
  IN  {uniform(d) : d \in DigitBytes}
      \cup {[uniform(49) EXCEPT ![p] = b] : p \in 1..len, b \in {33, 45, 43}}

Patterns(t) ==
  IF t \in {"usize", "isize"} THEN {}
  ELSE IF t \in SignedTypes
  THEN UNION {SignedPatternsOfLen(len) : len \in 0..(TableLen(t) + MaxExtra)}
  ELSE UNION {PatternsOfLen(len) : len \in 0..(TableLen(t) + MaxExtra)}

\* every string of one byte, for the two narrowest unsigned types
SingleBytes(t) ==
  IF t \in {"u8", "u16"} THEN {<<b>> : b \in 0..255} ELSE {}

\* the byte strings a caller passes to the parsers
TextInputs(t) ==
  LET base == Literals(t) \cup Patterns(t)
  IN  IF t \in SignedTypes THEN base \cup {<<45>> \o s : s \in base}
      ELSE base \cup SingleBytes(t)

\* a buffer is up to MaxPad bytes longer than the digits of the integer
MaxPad == 2

\* a buffer of len bytes holding the letters 'a', 'b', ..
RECURSIVE PreFill(_)
PreFill(len) ==
  IF len = 0 THEN <<>> ELSE Append(PreFill(len - 1), 97 + ((len - 1) % 26))

\* the magnitude of the value n of type t
MagnitudeIn(t, n) == IF t \in SignedTypes THEN Magnitude(n) ELSE n

\* the buffers a caller passes to int_to_bytes with the integer n: room for
\* the digits of the magnitude of n and up to MaxPad bytes more
Buffers(t, n) ==
  {PreFill(Len(Decimal(MagnitudeIn(t, n))) + k) : k \in 0..MaxPad}

----------------------------------------------------------------------------
(* The calls.  A caller supplies an integer or a byte string, then calls   *)
(* the library on what is at hand: a parser on the text, the formatter on  *)
(* the integer.  A panic ends the program.                                 *)

Parsers == {"from_ascii::atoi", "convert::atoi"}

Running == res.kind \notin {"Panic", "Undefined"} /\ Len(hist) < MaxCalls

Init ==
  /\ overflow_checks \in BOOLEAN
  /\ ty \in Types
  /\ num = <<>>
  /\ text = <<>>
  /\ has_text = FALSE
  /\ res = NoCall
  /\ hist = <<>>
  /\ given_buff = <<>>
  /\ orig = [kind |-> "none", val |-> <<>>]

GiveInt ==
  /\ orig.kind = "none"
  /\ \E n \in IntInputs(ty) :
       /\ num' = n
       /\ orig' = [kind |-> "int", val |-> n]
  /\ UNCHANGED <<overflow_checks, ty, text, has_text, res, hist, given_buff>>

GiveText ==
  /\ orig.kind = "none"
  /\ \E s \in TextInputs(ty) :
       /\ text' = s
       /\ orig' = [kind |-> "text", val |-> s]
  /\ has_text' = TRUE
  /\ UNCHANGED <<overflow_checks, ty, num, res, hist, given_buff>>

\* the effect of a parse: the text is consumed, an Ok value is at hand
Parsed(name, r) ==
  /\ res' = r
  /\ num' = IF r.kind = "Ok" THEN r.val ELSE <<>>
  /\ has_text' = FALSE
  /\ hist' = Append(hist, name)
  /\ UNCHANGED <<overflow_checks, ty, text, given_buff, orig>>

FromAsciiAtoi ==
  /\ Running
  /\ has_text
  /\ Parsed("from_ascii::atoi", from_ascii_atoi(ty, text))

ConvertAtoi ==
  /\ Running
  /\ has_text
  /\ Parsed("convert::atoi", convert_atoi(ty, text))

IntoAsciiItoa ==
  /\ Running
  /\ num # <<>>
  /\ LET r == into_ascii_itoa(ty, num)
     IN  /\ res' = r
         /\ text' = r.val
         /\ has_text' = (r.kind = "Ok")
  /\ num' = <<>>
  /\ hist' = Append(hist, "into_ascii::itoa")
  /\ UNCHANGED <<overflow_checks, ty, given_buff, orig>>

IntoAsciiDigits10 ==
  /\ Running
  /\ num # <<>>
  /\ res' = into_ascii_digits10(ty, num)
  /\ num' = <<>>
  /\ hist' = Append(hist, "into_ascii::digits10")
  /\ UNCHANGED <<overflow_checks, ty, text, has_text, given_buff, orig>>

\* bytes_to_int_simd on the text the caller supplied, at either alignment
ConvertSimdAtoi ==
  /\ Running
  /\ has_text
  /\ orig.kind = "text" /\ hist = <<>>
  /\ ty \in SimdTypes
  /\ \E aligned \in BOOLEAN :
       Parsed("convert_simd::atoi_simd", bytes_to_int_simd(ty, text, aligned))

\* atoi_unchecked on the text the caller supplied; the integer returned is
\* not passed on to the formatter
ConvertAtoiUnchecked ==
  /\ Running
  /\ has_text
  /\ orig.kind = "text" /\ hist = <<>>
  /\ res' = convert_atoi_unchecked(ty, text)
  /\ num' = <<>>
  /\ has_text' = FALSE
  /\ hist' = Append(hist, "convert::atoi_unchecked")
  /\ UNCHANGED <<overflow_checks, ty, text, given_buff, orig>>

\* description() of the ParseIntErr the checked parser has just returned
Description ==
  /\ Running
  /\ res.kind = "Err"
  /\ res.err.tag \in {"InvalidDigit", "Overflow"}
  /\ res' = description(res.err)
  /\ hist' = Append(hist, "ParseIntErr::description")
  /\ UNCHANGED <<overflow_checks, ty, num, text, has_text, given_buff, orig>>

\* the effect of a formatter call on the integer the caller supplied
Formatted(name, r, given) ==
  /\ res' = r
  /\ given_buff' = given
  /\ num' = <<>>
  /\ hist' = Append(hist, name)
  /\ UNCHANGED <<overflow_checks, ty, text, has_text, orig>>

IntoAsciiIntToBytes ==
  /\ Running
  /\ num # <<>>
  /\ orig.kind = "int"
  /\ \E given \in Buffers(ty, num) :
       Formatted("into_ascii::int_to_bytes",
                 into_ascii_int_to_bytes(ty, num, given), given)

ConvertIntToBytes ==
  /\ Running
  /\ num # <<>>
  /\ orig.kind = "int"
  /\ \E given \in Buffers(ty, num) :
       Formatted("convert::int_to_bytes",
                 convert_int_to_bytes(ty, num, given), given)

ConvertItoa ==
  /\ Running
  /\ num # <<>>
  /\ orig.kind = "int"
  /\ Formatted("convert::itoa", convert_itoa(ty, num), <<>>)

ConvertDigits10 ==
  /\ Running
  /\ num # <<>>
  /\ orig.kind = "int"
  /\ Formatted("convert::digits10", convert_digits10(ty, num), <<>>)

Next ==
  \/ GiveInt
  \/ GiveText
  \/ FromAsciiAtoi
  \/ ConvertAtoi
  \/ ConvertSimdAtoi
  \/ ConvertAtoiUnchecked
  \/ Description
  \/ IntoAsciiItoa
  \/ ConvertItoa
  \/ IntoAsciiIntToBytes
  \/ ConvertIntToBytes
  \/ IntoAsciiDigits10
  \/ ConvertDigits10

Spec == Init /\ [][Next]_vars

----------------------------------------------------------------------------
(* What the properties speak of.                                           *)

\* the caller supplied the integer n / the byte string s
GivenInt == orig.kind = "int"
GivenText == orig.kind = "text"

\* the width and the table length of the unsigned engine behind ty
W == Width(ty)
N == TableLen(ty)

\* C1: for every integer n of every type, itoa(n) returns and atoi of the
\* bytes it returns is Ok(n).
C1_RoundTrip ==
  GivenInt =>
    /\ hist = <<"into_ascii::itoa">> => res.kind = "Ok"
    /\ hist = <<"into_ascii::itoa", "from_ascii::atoi">> => res = Ok(orig.val)

\* C2 as stated: for every string of digits whose value fits the unsigned
\* type (leading zeros allowed), atoi returns and itoa of its value is the
\* string without its leading zeros ("0" for the value 0).
C2_Original ==
  (ty \in UnsignedTypes /\ GivenText /\ AllDigits(orig.val)
     /\ ~ExceedsWidth(orig.val, W)) =>
    /\ hist = <<"from_ascii::atoi">> => res.kind = "Ok"
    /\ hist = <<"from_ascii::atoi", "into_ascii::itoa">> =>
         res = Ok(StripZeros(orig.val))

\* C2 amended: the same for the strings of at most N bytes, N the table
\* length of the type; a longer string is refused whatever its value.
C2_StripRoundTrip ==
  (ty \in UnsignedTypes /\ GivenText
     /\ hist \in {<<"from_ascii::atoi">>, <<"from_ascii::atoi", "into_ascii::itoa">>}
     /\ Len(orig.val) <= N /\ AllDigits(orig.val)
     /\ ~ExceedsWidth(orig.val, W)) =>
    /\ hist = <<"from_ascii::atoi">> => res.kind = "Ok"
    /\ hist = <<"from_ascii::atoi", "into_ascii::itoa">> =>
         res = Ok(StripZeros(orig.val))

\* a text with a leading zero went through atoi and itoa and came back stripped
C2_Witness ==
  /\ ty = "u16" /\ GivenText /\ AllDigits(orig.val)
  /\ Len(orig.val) = N /\ orig.val[1] = 48 /\ orig.val[N] # 48
  /\ hist = <<"from_ascii::atoi", "into_ascii::itoa">>
  /\ res = Ok(StripZeros(orig.val))
  /\ Len(res.val) < Len(orig.val)

\* C3: the checked parse of an input longer than the table of the unsigned
\* type is Err(Overflow), whatever its bytes are.
C3_LongInputOverflow ==
  (ty \in UnsignedTypes /\ GivenText /\ hist = <<"from_ascii::atoi">>
     /\ Len(orig.val) > N) =>
    res = Err(Overflow)

\* u8 "1000" was refused, and so was a long input whose first byte is no digit
C3_Witness ==
  /\ ty = "u8" /\ GivenText /\ hist = <<"from_ascii::atoi">>
  /\ orig.val \in {<<49, 48, 48, 48>>, <<33, 49, 49, 49>>}
  /\ res = Err(Overflow)

\* C4: the checked parse of an input of at most N bytes holding a non-digit
\* is Err(InvalidDigit(b)), b the leftmost non-digit byte of the input.
C4_LeftmostInvalid ==
  (ty \in UnsignedTypes /\ GivenText /\ hist = <<"from_ascii::atoi">>
     /\ Len(orig.val) <= N /\ FirstInvalid(orig.val, 1) # 0) =>
    res = Err(with_byte(orig.val[FirstInvalid(orig.val, 1)]))

\* C5: the unsigned parse of at most N digits is Ok(v mod 2^W), v the
\* decimal value of the input.
C5_WrappingResult ==
  (ty \in UnsignedTypes /\ GivenText /\ Len(hist) = 1 /\ hist[1] \in Parsers
     /\ AllDigits(orig.val) /\ Len(orig.val) <= N) =>
    res = Ok(DecimalValue(orig.val, W))

\* C6: digits10 of an unsigned n is the length of the canonical decimal text
\* of n: 1 for 0, never 0, at most N.
C6_Digits10 ==
  (ty \in UnsignedTypes /\ GivenInt /\ hist = <<"into_ascii::digits10">>) =>
    /\ res = Ok(Len(Decimal(orig.val)))
    /\ res.val >= 1
    /\ res.val <= N
    /\ is_zero(orig.val) => res.val = 1

\* digits10 returned 1 for 0, and the full 20 for a u64
C6_Witness ==
  /\ GivenInt /\ hist = <<"into_ascii::digits10">>
  /\ \/ ty = "u16" /\ is_zero(orig.val) /\ res = Ok(1)
     \/ ty = "u64" /\ orig.val = AllOnes(64) /\ res = Ok(20)

\* C7: itoa of a negative n is '-' followed by the canonical decimal text of
\* the magnitude of n; itoa of n >= 0 is the canonical decimal text of n.
C7_SignedItoa ==
  (ty \in SignedTypes /\ GivenInt /\ hist = <<"into_ascii::itoa">>) =>
    res = Ok(IF is_negative(orig.val)
             THEN <<45>> \o Decimal(Magnitude(orig.val))
             ELSE Decimal(orig.val))

\* "-9223372036854775808"
I64MinText ==
  <<45, 57, 50, 50, 51, 51, 55, 50, 48, 51, 54, 56, 53, 52, 55, 55, 53, 56, 48, 56>>

\* C8: atoi of the decimal text of the least i64 is that value, and itoa of
\* it is the same 20 bytes; no step panics.
C8_MinRoundTrip ==
  (ty = "i64" /\ GivenText /\ orig.val = I64MinText) =>
    /\ hist = <<"from_ascii::atoi">> => res = Ok(min_value(64))
    /\ hist = <<"from_ascii::atoi", "into_ascii::itoa">> => res = Ok(I64MinText)

\* C9: the signed parse of "-" followed by m is the wrapping negation of the
\* unsigned parse of m, whenever that parse succeeds.
C9_NegatedMagnitude ==
  (ty \in SignedTypes /\ GivenText /\ Len(hist) = 1 /\ hist[1] \in Parsers
     /\ Len(orig.val) >= 1 /\ orig.val[1] = 45) =>
    LET m == Tail(orig.val)
        u == IF hist[1] = "from_ascii::atoi"
             THEN from_ascii_unsigned(UnsignedVersion(ty), m)
             ELSE convert_unsigned(UnsignedVersion(ty), m)
    IN  u.kind = "Ok" => res = Ok(wrapping_neg(u.val))

\* C10: the signed parse of at most N digits whose value v fits the unsigned
\* type is the bit pattern of v with no range check: for v above the signed
\* maximum the result is negative and v + |result| = 2^W.
C10_CastNoRangeCheck ==
  (ty \in SignedTypes /\ GivenText /\ Len(hist) = 1 /\ hist[1] \in Parsers
     /\ AllDigits(orig.val) /\ Len(orig.val) <= N
     /\ ~ExceedsWidth(orig.val, W)) =>
    LET v == DecimalValue(orig.val, W)
    IN  /\ res = Ok(v)
        /\ ~less(v, min_value(W)) =>
             /\ is_negative(res.val)
             /\ is_zero(wrapping_add(v, Magnitude(res.val)))
             /\ add_overflows(v, Magnitude(res.val))

\* isize "9223372036854775808" parsed to the least isize
C10_Witness ==
  /\ ty = "isize" /\ GivenText /\ hist = <<"convert::atoi">>
  /\ orig.val = Tail(I64MinText)
  /\ res = Ok(min_value(64))

\* the formatter calls that write into a caller's buffer
BufferWriters == {"into_ascii::int_to_bytes", "convert::int_to_bytes"}

\* the bytes of the buffer left of its last k bytes, and its last k bytes
LeftOf(b, k) == SubSeq(b, 1, Len(b) - k)
LastBytes(b, k) == SubSeq(b, Len(b) - k + 1, Len(b))

\* C11: for u32 and u64 and every input of at most N bytes, bytes_to_int_simd
\* has the outcome of the scalar bytes_to_int of convert.rs: the same Ok
\* value or the same Err (or, at least, the same panic).
C11_SimdAgreesWithScalar ==
  (ty \in SimdTypes /\ GivenText /\ hist = <<"convert_simd::atoi_simd">>
     /\ Len(orig.val) <= N) =>
    res = convert_unsigned(ty, orig.val)

\* C12: int_to_bytes of into_ascii.rs on an unsigned n and a buffer longer
\* than digits10(n) leaves every byte left of the last digits10(n) bytes as
\* it was.
C12_HeadUntouched ==
  (ty \in UnsignedTypes /\ GivenInt /\ hist = <<"into_ascii::int_to_bytes">>) =>
    /\ res.kind = "Ok"
    /\ Len(res.val) = Len(given_buff)
    /\ LeftOf(res.val, Len(Decimal(orig.val))) = LeftOf(given_buff, Len(Decimal(orig.val)))

C14_RightAligned ==
  (ty \in UnsignedTypes /\ GivenInt /\ Len(hist) = 1 /\ hist[1] \in BufferWriters) =>
    /\ res.kind = "Ok"
    /\ Len(res.val) = Len(given_buff)
    /\ LastBytes(res.val, Len(Decimal(orig.val))) = Decimal(orig.val)

\* a u32 of at least five digits was written into a longer buffer by into_ascii.rs
C14_Witness ==
  /\ ty = "u32" /\ GivenInt /\ hist = <<"into_ascii::int_to_bytes">>
  /\ Len(Decimal(orig.val)) >= 5
  /\ Len(given_buff) > Len(Decimal(orig.val))
  /\ res.kind = "Ok"
  /\ LastBytes(res.val, Len(Decimal(orig.val))) = Decimal(orig.val)

\* C15: int_to_bytes of into_ascii.rs on any integer n and a buffer of at
\* least digits10(n) bytes completes and leaves the whole decimal text of n in
\* the buffer: the digits of the magnitude last, and a '-' left of them when
\* n is negative.
C15_SolePrecondition ==
  (GivenInt /\ hist = <<"into_ascii::int_to_bytes">>) =>
    LET d == Len(Decimal(MagnitudeIn(ty, orig.val)))
    IN  /\ res.kind = "Ok"
        /\ Len(res.val) = Len(given_buff)
        /\ LastBytes(res.val, d) = Decimal(MagnitudeIn(ty, orig.val))
        /\ (ty \in SignedTypes /\ is_negative(orig.val)) =>
             \E i \in 1..(Len(res.val) - d) : res.val[i] = 45

\* C16: itoa (into_ascii.rs and convert.rs) of an unsigned n is the canonical
\* decimal text of n: digits10(n) bytes, all digits, no leading zero.
C16_UnsignedItoa ==
  (ty \in UnsignedTypes /\ GivenInt /\ Len(hist) = 1
     /\ hist[1] \in {"into_ascii::itoa", "convert::itoa"}) =>
    /\ res = Ok(Decimal(orig.val))
    /\ Len(res.val) = into_ascii_digits10_unsigned(ty, orig.val)
    /\ AllDigits(res.val)
    /\ Len(res.val) > 1 => res.val[1] # 48

\* 65535u16 came out of the itoa of convert.rs as "65535"
C16_Witness ==
  /\ ty = "u16" /\ GivenInt /\ orig.val = AllOnes(16)
  /\ hist = <<"convert::itoa">>
  /\ res = Ok(<<54, 53, 53, 51, 53>>)

\* C17: digits10 (into_ascii.rs and convert.rs) of a negative n is the number
\* of digits of its magnitude, the minimum value included.
C17_NegativeDigits10 ==
  (ty \in SignedTypes /\ GivenInt /\ is_negative(orig.val) /\ Len(hist) = 1
     /\ hist[1] \in {"into_ascii::digits10", "convert::digits10"}) =>
    res = Ok(Len(Decimal(Magnitude(orig.val))))

\* C18: the empty input parses to Ok(0), for every type and both parsers.
C18_EmptyInput ==
  (GivenText /\ orig.val = <<>> /\ Len(hist) = 1 /\ hist[1] \in Parsers) =>
    res = Ok(Zero(W))

\* the empty input was parsed as an i16 by convert.rs, as a u64 by from_ascii.rs
C18_Witness ==
  /\ GivenText /\ orig.val = <<>> /\ res.kind = "Ok" /\ is_zero(res.val)
  /\ \/ ty = "i16" /\ hist = <<"convert::atoi">>
     \/ ty = "u64" /\ hist = <<"from_ascii::atoi">>

\* the bytes of a signed input after its leading '-', if it has one
MagnitudeBytes(s) == IF Len(s) >= 1 /\ s[1] = 45 THEN Tail(s) ELSE s

\* C19: when the unsigned parse of the magnitude bytes returns an error, the
\* signed parse returns that same error.
C19_ErrorForwarded ==
  (ty \in SignedTypes /\ GivenText /\ Len(hist) = 1 /\ hist[1] \in Parsers) =>
    LET m == MagnitudeBytes(orig.val)
        u == IF hist[1] = "from_ascii::atoi"
             THEN from_ascii_unsigned(UnsignedVersion(ty), m)
             ELSE convert_unsigned(UnsignedVersion(ty), m)
    IN  u.kind = "Err" => res = u

\* a signed parse of "-" and a magnitude with a non-digit returned InvalidDigit
C19_Witness ==
  /\ ty \in SignedTypes /\ GivenText /\ hist = <<"from_ascii::atoi">>
  /\ Len(orig.val) >= 2 /\ orig.val[1] = 45
  /\ res.kind = "Err" /\ res.err.tag = "InvalidDigit"
  /\ res.err.byte = orig.val[FirstInvalid(Tail(orig.val), 1) + 1]

\* C20: the checked parse of an input of at most N bytes never panics: no
\* product of parse_byte and no sum r1 + r2 + r3 + r4 exceeds the width.
C20_NoTrap ==
  (ty \in UnsignedTypes /\ GivenText /\ hist = <<"from_ascii::atoi">>
     /\ Len(orig.val) <= N) =>
    res.kind # "Panic"

\* every digit * power product of the digit string s fits the width of ty
ProductsFit(s) ==
  \A i \in 1..Len(s) :
    ~mul_overflows(ConstTable(ty)[N - Len(s) + i], s[i] - ASCII_TO_INT_FACTOR)

\* C21: bytes_to_int of convert.rs for u16, u32 and u64 adds into the running
\* result modulo 2^W in the group loop and in the remainder loop: a digit
\* input of at most N bytes whose products fit the width parses to its
\* decimal value modulo 2^W (u16 "65536" gives 0).
C21_AdditionsWrap ==
  (ty \in {"u16", "u32", "u64"} /\ GivenText /\ hist = <<"convert::atoi">>
     /\ Len(orig.val) <= N /\ AllDigits(orig.val) /\ ProductsFit(orig.val)) =>
    res = Ok(DecimalValue(orig.val, W))

\* 10^k in w bits
Pow10(k, w) == Lit(<<1>> \o Repeat(0, k), w)

\* 10^k as the table holds it: the entry k places before the last entry 1,
\* each entry being ten times the next
Pow10At(table, k) == table[Len(table) - k]

\* the sum modulo 2^w of digit * table entry over the reads r[1..k] of s
RECURSIVE SumOfReads(_, _, _, _)
SumOfReads(s, table, r, k) ==
  IF k = 0 THEN Zero(8 * Len(table[1]))
  ELSE wrapping_add(SumOfReads(s, table, r, k - 1),
                    wrapping_mul(table[r[k].table + 1],
                                 s[r[k].byte + 1] - ASCII_TO_INT_FACTOR))

\* C22: in the parse loops of convert.rs on an input of L <= N bytes, idx
\* starts at N - L and idx + len = N at every read; every byte read lies in
\* the input and every table read in the table; the bytes are read once each,
\* left to right, up to the first non-digit; byte i meets 10^(L-1-i); an
\* input of digits is read in L div 4 groups and L mod 4 remainder bytes, and
\* the result is the sum of the products read.
C22_TableAlignment ==
  (ty \in UnsignedTypes /\ GivenText /\ hist = <<"convert::atoi">>
     /\ Len(orig.val) <= N) =>
    LET s == orig.val
        L == Len(s)
        r == bytes_to_int_reads(ty, s)
        bad == FirstInvalid(s, 1)
    IN  /\ Len(r) = IF bad = 0 THEN L ELSE bad
        /\ \A k \in 1..Len(r) :
             /\ r[k].byte = k - 1
             /\ r[k].byte \in 0..(L - 1)
             /\ r[k].idx + r[k].len = N
             /\ r[k].idx >= N - L
             /\ r[k].table = N - L + r[k].byte
             /\ r[k].table \in 0..(N - 1)
             /\ ConstTable(ty)[r[k].table + 1] = Pow10At(ConstTable(ty), L - 1 - r[k].byte)
        /\ (L > 0) => r[1].idx = N - L
        /\ bad = 0 =>
             /\ Cardinality({k \in 1..L : r[k].group}) =
                  IF ty = "u8" THEN 0 ELSE 4 * (L \div 4)
             /\ Cardinality({k \in 1..L : ~r[k].group}) =
                  IF ty = "u8" THEN L ELSE L % 4
             /\ \A k \in 1..L : r[k].group <=> (ty # "u8" /\ k <= 4 * (L \div 4))
        /\ res.kind = "Ok" => res.val = SumOfReads(s, ConstTable(ty), r, Len(r))

\* a u64 of two groups and a remainder was parsed by convert.rs
C22_Witness ==
  /\ ty = "u64" /\ GivenText /\ hist = <<"convert::atoi">>
  /\ AllDigits(orig.val) /\ Len(orig.val) >= 9 /\ Len(orig.val) < N
  /\ Len(orig.val) % 4 # 0
  /\ orig.val[1] = 57
  /\ res.kind = "Ok"
  /\ Len(bytes_to_int_reads(ty, orig.val)) = Len(orig.val)

IsPow10Table(table, w) ==
  LET n == Len(table)
  IN  /\ table[n] = FromNat(1, w)
      /\ \A j \in 1..(n - 1) :
           /\ ~mul_overflows(table[j + 1], 10)
           /\ table[j] = wrapping_mul(table[j + 1], 10)
           /\ less(table[j + 1], table[j])
      /\ mul_overflows(table[1], 10)

\* C25: the table of each width, in from_ascii.rs and in convert.rs, has N
\* entries (3, 5, 10, 20 for 8, 16, 32, 64 bits), entry i is 10^(N-1-i), the
\* entries descend strictly to a last entry 1, each fits the width and 10^N
\* does not.  Stated where a parse has used the whole table.
C25_Pow10Tables ==
  (GivenText /\ Len(hist) = 1 /\ hist[1] \in Parsers /\ Len(orig.val) = N) =>
    LET u == UnsignedVersion(ty)
    IN  /\ Len(ConstTable(u)) = (CASE W = 8 -> 3 [] W = 16 -> 5
                                   [] W = 32 -> 10 [] W = 64 -> 20)
        /\ IsPow10Table(ConstTable(u), W)
        /\ ConvertTable(u) = ConstTable(u)
        /\ ConvertTableLen(u) = Len(ConvertTable(u))

\* a u64 of 20 digits was parsed: its first digit met the first table entry
C25_Witness ==
  /\ ty = "u64" /\ GivenText /\ hist = <<"from_ascii::atoi">>
  /\ Len(orig.val) = 20 /\ AllDigits(orig.val) /\ orig.val[1] = 49
  /\ res = Ok(DecimalValue(orig.val, 64))
  /\ ~is_zero(res.val)

\* C26: the checked parse of an unsigned type returns Err(Overflow) exactly
\* for the inputs longer than the table: for every input of more than N bytes,
\* whatever its value or bytes, and for no input of at most N bytes, whatever
\* its value.
C26_OverflowIffLong ==
  (ty \in UnsignedTypes /\ GivenText /\ hist = <<"from_ascii::atoi">>) =>
    /\ res = Err(Overflow) <=> Len(orig.val) > N
    /\ (res.kind = "Err" /\ res.err.tag = "Overflow") <=> Len(orig.val) > N

\* u8 "256" has three bytes and the value 256: it was parsed to 0, not refused
C26_Witness ==
  /\ ty = "u8" /\ GivenText /\ hist = <<"from_ascii::atoi">>
  /\ orig.val = <<50, 53, 54>>
  /\ ExceedsWidth(orig.val, 8)
  /\ res = Ok(<<0>>)

\* C27: on an input of digits of at most N bytes, bytes_to_int_unchecked of an
\* unsigned type returns what bytes_to_int returns.
C27_UncheckedAgrees ==
  (ty \in UnsignedTypes /\ GivenText /\ hist = <<"convert::atoi_unchecked">>
     /\ Len(orig.val) <= N /\ AllDigits(orig.val)) =>
    res = convert_unsigned(ty, orig.val)

\* C28: on an input of at most N bytes the checked parser of from_ascii.rs
\* and the parser of convert.rs, for an unsigned type, return Ok with the same
\* value on the same inputs, and the parser of convert.rs returns Err(())
\* exactly when the checked parser returns Err(InvalidDigit(_)).
C28_PoliciesAgree ==
  (ty \in UnsignedTypes /\ GivenText /\ hist = <<"from_ascii::atoi">>
     /\ Len(orig.val) <= N) =>
    LET c == convert_unsigned(ty, orig.val)
    IN  /\ res.kind = "Ok" <=> c.kind = "Ok"
        /\ res.kind = "Ok" => res.val = c.val
        /\ c = Err(UnitErr) <=> (res.kind = "Err" /\ res.err.tag = "InvalidDigit")

\* C29: description() of every error the checked parser returns completes:
\* for InvalidDigit(b) it is the string of the one byte b, for Overflow the
\* fixed message.
C29_DescriptionCompletes ==
  (GivenText /\ hist = <<"from_ascii::atoi", "ParseIntErr::description">>) =>
    LET e == from_ascii_atoi(ty, orig.val).err
    IN  /\ res.kind = "Ok"
        /\ e.tag = "InvalidDigit" => res.val = <<e.byte>>
        /\ e.tag = "Overflow" => res.val = OverflowMessage

\* C30: the signed checked parse consumes one leading '-' only: "-" alone is
\* Ok(0); a second '-' and a '+' are InvalidDigit of that byte; the length
\* gate counts the bytes after the sign, so '-' and N digits are not refused
\* as Overflow and '-' and more than N bytes are.
C30_SignEdges ==
  (ty \in SignedTypes /\ GivenText /\ hist = <<"from_ascii::atoi">>) =>
    LET s == orig.val
        L == Len(s)
    IN  /\ s = <<45>> => res = Ok(Zero(W))
        /\ (L >= 2 /\ s[1] = 45 /\ s[2] \in {45, 43} /\ L - 1 <= N) =>
             res = Err(with_byte(s[2]))
        /\ (L >= 1 /\ s[1] = 43 /\ L <= N) => res = Err(with_byte(43))
        /\ (L >= 1 /\ s[1] = 45) => (res = Err(Overflow) <=> L - 1 > N)
        /\ (L = N + 1 /\ s[1] = 45 /\ AllDigits(Tail(s))) =>
             /\ res.kind # "Err"
             /\ ~overflow_checks => res = Ok(wrapping_neg(DecimalValue(Tail(s), W)))

\* i8 "-111", a sign and N = 3 digits, was parsed to -111
C30_Witness ==
  /\ ty = "i8" /\ GivenText /\ hist = <<"from_ascii::atoi">>
  /\ orig.val = <<45, 49, 49, 49>>
  /\ res = Ok(wrapping_neg(<<111>>))
====
